---------------------------- MODULE Spec2Model ----------------------------
(***************************************************************************)
(* A model of the SQL abstract syntax tree of src/sqlast (mod.rs and       *)
(* sqltype.rs) and of its renderer: the ToString implementations of the    *)
(* tree's node types and the two FromStr keyword parsers.                  *)
(*                                                                         *)
(* Text is modelled by TLA+ strings, built with \o exactly as the code     *)
(* builds it with format! and +=.  A call that panics (Option::unwrap on   *)
(* None) yields Panic, and a panic in an argument of format! or in an      *)
(* element of a joined vector unwinds through every caller.                *)
(*                                                                         *)
(* An Option<T> is the sequence << >> (None) or << x >> (Some(x)).  A tree *)
(* node is a record whose field "tag" names the variant.                   *)
(***************************************************************************)
EXTENDS Integers, Sequences, FiniteSets, TLC

VARIABLES
    arg,      \* the value an operation is applied to
    call,     \* the operation that was applied, "none" before any
    result    \* what the operation returned, Pending before any

vars == <<arg, call, result>>

-----------------------------------------------------------------------------
(* Bounds of the model *)

\* Nesting depth of expressions and of array types.
MaxDepth == 2
\* Longest vector (list of expressions, names, columns, rows, values).
MaxLen == 2
\* Largest number (a type's length, precision or scale, a literal, an offset).
MaxNum == 2

-----------------------------------------------------------------------------
(* Option<T> *)

None == << >>
Some(x) == << x >>
is_some(o) == Len(o) = 1
is_none(o) == Len(o) = 0
Option(S) == {None} \cup {Some(x) : x \in S}

\* Every vector over S of length at most n.
VecUpTo(S, n) == UNION {[1 .. k -> S] : k \in 0 .. n}

-----------------------------------------------------------------------------
(* Strings: the outcome of a to_string call *)

\* The call returned the String s.
Ok(s) == [panic |-> FALSE, text |-> s]
\* The call panicked (unwrap on None): no String is returned.
Panic == [panic |-> TRUE, text |-> ""]
\* The state before any operation was applied.
Pending == [pending |-> TRUE]

RECURSIVE ConcatText(_)
ConcatText(strs) ==
    IF Len(strs) = 0 THEN "" ELSE Head(strs) \o ConcatText(Tail(strs))

\* format!(...) and String += : the pieces in order; a panicking argument
\* unwinds the whole call.
Format(parts) ==
    IF \E i \in DOMAIN parts : parts[i].panic
    THEN Panic
    ELSE Ok(ConcatText([i \in DOMAIN parts |-> parts[i].text]))

RECURSIVE JoinText(_, _)
JoinText(strs, sep) ==
    IF Len(strs) = 0 THEN ""
    ELSE IF Len(strs) = 1 THEN Head(strs)
    ELSE Head(strs) \o sep \o JoinText(Tail(strs), sep)

\* Vec<String>::join(sep) over the collected to_string results.
join(strs, sep) ==
    IF \E i \in DOMAIN strs : strs[i].panic
    THEN Panic
    ELSE Ok(JoinText([i \in DOMAIN strs |-> strs[i].text], sep))

\* comma_separated_string(vec): vec holds the to_string of each element.
comma_separated_string(vec) == join(vec, ", ")

\* String::to_string of an identifier.
SQLIdent_to_string(s) == Ok(s)

\* SQLObjectName::to_string: the parts joined by ".".
SQLObjectName_to_string(name) ==
    join([i \in DOMAIN name |-> Ok(name[i])], ".")

\* Display of an unsigned integer.
usize_to_string(n) == Ok(ToString(n))

-----------------------------------------------------------------------------
(* sqltype.rs *)

format_type_with_optional_length(sql_type, len) ==
    IF is_some(len)
    THEN Format(<<Ok(sql_type), Ok("("), usize_to_string(len[1]), Ok(")")>>)
    ELSE Ok(sql_type)

\* A variant of precision_unwrap: precision.unwrap_or(0), which never panics.
precision_unwrap_or_zero(precision) ==
    IF is_some(precision) THEN usize_to_string(precision[1]) ELSE Ok("0")

\* precision.unwrap(), displayed: a panic when the precision is None.
precision_unwrap(precision) ==
    IF is_some(precision) THEN usize_to_string(precision[1]) ELSE Panic

SQLType_Decimal_to_string(precision, scale) ==
    IF is_some(scale)
    THEN Format(<<Ok("numeric("), precision_unwrap(precision), Ok(","),
                  usize_to_string(scale[1]), Ok(")")>>)
    ELSE format_type_with_optional_length("numeric", precision)

RECURSIVE SQLType_to_string(_)
SQLType_to_string(ty) ==
    CASE ty.tag = "Char" -> format_type_with_optional_length("char", ty.optsize)
      [] ty.tag = "Varchar" ->
             format_type_with_optional_length("character varying", ty.optsize)
      [] ty.tag = "Uuid" -> Ok("uuid")
      [] ty.tag = "Clob" -> Format(<<Ok("clob("), usize_to_string(ty.size), Ok(")")>>)
      [] ty.tag = "Binary" -> Format(<<Ok("binary("), usize_to_string(ty.size), Ok(")")>>)
      [] ty.tag = "Varbinary" ->
             Format(<<Ok("varbinary("), usize_to_string(ty.size), Ok(")")>>)
      [] ty.tag = "Blob" -> Format(<<Ok("blob("), usize_to_string(ty.size), Ok(")")>>)
      [] ty.tag = "Decimal" -> SQLType_Decimal_to_string(ty.precision, ty.scale)
      [] ty.tag = "Float" -> format_type_with_optional_length("float", ty.optsize)
      [] ty.tag = "SmallInt" -> Ok("smallint")
      [] ty.tag = "Int" -> Ok("int")
      [] ty.tag = "BigInt" -> Ok("bigint")
      [] ty.tag = "Real" -> Ok("real")
      [] ty.tag = "Double" -> Ok("double")
      [] ty.tag = "Boolean" -> Ok("boolean")
      [] ty.tag = "Date" -> Ok("date")
      [] ty.tag = "Time" -> Ok("time")
      [] ty.tag = "Timestamp" -> Ok("timestamp")
      [] ty.tag = "Regclass" -> Ok("regclass")
      [] ty.tag = "Text" -> Ok("text")
      [] ty.tag = "Bytea" -> Ok("bytea")
      [] ty.tag = "Array" -> Format(<<SQLType_to_string(ty.elem), Ok("[]")>>)
      [] ty.tag = "Custom" -> SQLObjectName_to_string(ty.custom)

-----------------------------------------------------------------------------
(* mod.rs: the two keyword enums *)

SQLWindowFrameUnits == {"Rows", "Range", "Groups"}

SQLWindowFrameUnits_to_string(u) ==
    CASE u = "Rows" -> Ok("ROWS")
      [] u = "Range" -> Ok("RANGE")
      [] u = "Groups" -> Ok("GROUPS")

\* Result<T, ParserError>
OkValue(v) == [is_ok |-> TRUE, value |-> v, message |-> ""]
ParserError(msg) == [is_ok |-> FALSE, value |-> "", message |-> msg]

SQLWindowFrameUnits_from_str(s) ==
    CASE s = "ROWS" -> OkValue("Rows")
      [] s = "RANGE" -> OkValue("Range")
      [] s = "GROUPS" -> OkValue("Groups")
      [] OTHER -> ParserError("Expected ROWS, RANGE, or GROUPS, found: " \o s)

FileFormat ==
    {"TEXTFILE", "SEQUENCEFILE", "ORC", "PARQUET", "AVRO", "RCFILE", "JSONFILE"}

FileFormat_to_string(f) ==
    CASE f = "TEXTFILE" -> Ok("TEXTFILE")
      [] f = "SEQUENCEFILE" -> Ok("SEQUENCEFILE")
      [] f = "ORC" -> Ok("ORC")
      [] f = "PARQUET" -> Ok("PARQUET")
      [] f = "AVRO" -> Ok("AVRO")
      [] f = "RCFILE" -> Ok("RCFILE")
      [] f = "JSONFILE" -> Ok("TEXTFILE")

\* A variant of FileFormat_from_str that matches one keyword in lower case
\* too.
FileFormat_from_str_lenient(s) ==
    CASE s \in {"TEXTFILE", "textfile"} -> OkValue("TEXTFILE")
      [] s = "SEQUENCEFILE" -> OkValue("SEQUENCEFILE")
      [] s = "ORC" -> OkValue("ORC")
      [] s = "PARQUET" -> OkValue("PARQUET")
      [] s = "AVRO" -> OkValue("AVRO")
      [] s = "RCFILE" -> OkValue("RCFILE")
      [] s = "JSONFILE" -> OkValue("JSONFILE")
      [] OTHER -> ParserError("Unexpected file format: " \o s)

FileFormat_from_str(s) ==
    CASE s = "TEXTFILE" -> OkValue("TEXTFILE")
      [] s = "SEQUENCEFILE" -> OkValue("SEQUENCEFILE")
      [] s = "ORC" -> OkValue("ORC")
      [] s = "PARQUET" -> OkValue("PARQUET")
      [] s = "AVRO" -> OkValue("AVRO")
      [] s = "RCFILE" -> OkValue("RCFILE")
      [] s = "JSONFILE" -> OkValue("JSONFILE")
      [] OTHER -> ParserError("Unexpected file format: " \o s)

-----------------------------------------------------------------------------
(* The sub-models mod.rs imports: query, sql_operator, value, table_key.   *)
(* Only their to_string is used; each is modelled from its contract.       *)

\* SQLQuery::to_string: the query's text.
SQLQuery_to_string(q) == Ok(q.sql)

\* SQLOperator::to_string: the operator's symbol.
SQLOperator_to_string(op) == Ok(op.symbol)

\* Value::to_string: a number in digits, a string in single quotes.
Value_to_string(v) ==
    CASE v.vtag = "Long" -> usize_to_string(v.long)
      [] v.vtag = "SingleQuotedString" -> Format(<<Ok("'"), Ok(v.str), Ok("'")>>)
      [] v.vtag = "Null" -> Ok("NULL")

\* AlterOperation::to_string: the operation's text.
AlterOperation_to_string(operation) == Ok(operation.optext)

-----------------------------------------------------------------------------
(* mod.rs: expressions *)

RECURSIVE ASTNode_to_string(_)

\* vec.iter().map(ASTNode::to_string).collect()
ASTNode_to_strings(vec) == [i \in DOMAIN vec |-> ASTNode_to_string(vec[i])]

\* SQLOrderByExpr::to_string (query.rs): the expression, then ASC or DESC.
SQLOrderByExpr_to_string(o) ==
    Format(<<ASTNode_to_string(o.expr),
             IF is_none(o.asc) THEN Ok("")
             ELSE IF o.asc[1] THEN Ok(" ASC") ELSE Ok(" DESC")>>)

SQLWindowFrameBound_to_string(b) ==
    CASE b.btag = "CurrentRow" -> Ok("CURRENT ROW")
      [] b.btag = "Preceding" /\ is_none(b.offset) -> Ok("UNBOUNDED PRECEDING")
      [] b.btag = "Following" /\ is_none(b.offset) -> Ok("UNBOUNDED FOLLOWING")
      [] b.btag = "Preceding" /\ is_some(b.offset) ->
             Format(<<usize_to_string(b.offset[1]), Ok(" PRECEDING")>>)
      [] b.btag = "Following" /\ is_some(b.offset) ->
             Format(<<usize_to_string(b.offset[1]), Ok(" FOLLOWING")>>)

\* A variant of SQLWindowFrame_clause: the end bound is left out.
SQLWindowFrame_clause_start_only(window_frame) ==
    Format(<<SQLWindowFrameUnits_to_string(window_frame.units),
             Ok(" "),
             SQLWindowFrameBound_to_string(window_frame.start_bound)>>)

\* The clause pushed for the window frame.
SQLWindowFrame_clause(window_frame) ==
    IF is_some(window_frame.end_bound)
    THEN Format(<<SQLWindowFrameUnits_to_string(window_frame.units),
                  Ok(" BETWEEN "),
                  SQLWindowFrameBound_to_string(window_frame.start_bound),
                  Ok(" AND "),
                  SQLWindowFrameBound_to_string(window_frame.end_bound[1])>>)
    ELSE Format(<<SQLWindowFrameUnits_to_string(window_frame.units),
                  Ok(" "),
                  SQLWindowFrameBound_to_string(window_frame.start_bound)>>)

SQLWindowSpec_to_string(w) ==
    LET c1 == IF Len(w.partition_by) # 0
              THEN <<Format(<<Ok("PARTITION BY "),
                       comma_separated_string(ASTNode_to_strings(w.partition_by))>>)>>
              ELSE << >>
        c2 == IF Len(w.order_by) # 0
              THEN <<Format(<<Ok("ORDER BY "),
                       comma_separated_string(
                         [i \in DOMAIN w.order_by |->
                            SQLOrderByExpr_to_string(w.order_by[i])])>>)>>
              ELSE << >>
        c3 == IF is_some(w.window_frame)
              THEN <<SQLWindowFrame_clause(w.window_frame[1])>>
              ELSE << >>
        clauses == c1 \o c2 \o c3
    IN  join(clauses, " ")

\* A variant of negated_text with the test inverted.
negated_text_inverted(negated) == IF negated THEN Ok("") ELSE Ok("NOT ")

\* if *negated { "NOT " } else { "" }
negated_text(negated) == IF negated THEN Ok("NOT ") ELSE Ok("")

SQLInList_to_string(n) ==
    Format(<<ASTNode_to_string(n.expr), Ok(" "), negated_text(n.negated),
             Ok("IN ("), comma_separated_string(ASTNode_to_strings(n.list)),
             Ok(")")>>)

SQLInSubquery_to_string(n) ==
    Format(<<ASTNode_to_string(n.expr), Ok(" "), negated_text(n.negated),
             Ok("IN ("), SQLQuery_to_string(n.subquery), Ok(")")>>)

SQLBetween_to_string(n) ==
    Format(<<ASTNode_to_string(n.expr), Ok(" "), negated_text(n.negated),
             Ok("BETWEEN "), ASTNode_to_string(n.low), Ok(" AND "),
             ASTNode_to_string(n.high)>>)

SQLFunction_to_string(n) ==
    LET s == Format(<<SQLObjectName_to_string(n.name), Ok("("),
                      IF n.all THEN Ok("ALL ") ELSE Ok(""),
                      IF n.distinct THEN Ok("DISTINCT ") ELSE Ok(""),
                      comma_separated_string(ASTNode_to_strings(n.args)),
                      Ok(")")>>)
    IN  IF is_some(n.over)
        THEN Format(<<s, Ok(" OVER ("), SQLWindowSpec_to_string(n.over[1]), Ok(")")>>)
        ELSE s

\* A variant of zip that pairs the conditions with the results reversed.
zip_reversed(xs, ys) ==
    [i \in 1 .. (IF Len(xs) <= Len(ys) THEN Len(xs) ELSE Len(ys)) |->
        <<xs[i], ys[Len(ys) + 1 - i]>>]

\* A variant of zip that pairs nothing unless both sequences are equally long.
zip_equal_lengths(xs, ys) ==
    IF Len(xs) = Len(ys) THEN [i \in 1 .. Len(xs) |-> <<xs[i], ys[i]>>] ELSE << >>

\* conditions.iter().zip(results): pairs up to the shorter length.
zip(xs, ys) ==
    [i \in 1 .. (IF Len(xs) <= Len(ys) THEN Len(xs) ELSE Len(ys)) |->
        <<xs[i], ys[i]>>]

SQLCase_to_string(n) ==
    LET s0 == Ok("CASE")
        s1 == IF is_some(n.operand)
              THEN Format(<<s0, Ok(" "), ASTNode_to_string(n.operand[1])>>)
              ELSE s0
        pairs == zip(n.conditions, n.results)
        whens == [i \in DOMAIN pairs |->
                    Format(<<Ok(" WHEN "), ASTNode_to_string(pairs[i][1]),
                             Ok(" THEN "), ASTNode_to_string(pairs[i][2])>>)]
        s2 == Format(<<s1, join(whens, "")>>)
        s3 == IF is_some(n.else_result)
              THEN Format(<<s2, Ok(" ELSE "), ASTNode_to_string(n.else_result[1])>>)
              ELSE s2
    IN  Format(<<s3, Ok(" END")>>)

ASTNode_to_string(n) ==
    CASE n.tag = "SQLIdentifier" -> SQLIdent_to_string(n.ident)
      [] n.tag = "SQLWildcard" -> Ok("*")
      [] n.tag = "SQLQualifiedWildcard" ->
             Format(<<join([i \in DOMAIN n.parts |-> Ok(n.parts[i])], "."), Ok(".*")>>)
      [] n.tag = "SQLCompoundIdentifier" ->
             join([i \in DOMAIN n.parts |-> Ok(n.parts[i])], ".")
      [] n.tag = "SQLIsNull" -> Format(<<ASTNode_to_string(n.expr), Ok(" IS NULL")>>)
      [] n.tag = "SQLIsNotNull" ->
             Format(<<ASTNode_to_string(n.expr), Ok(" IS NOT NULL")>>)
      [] n.tag = "SQLInList" -> SQLInList_to_string(n)
      [] n.tag = "SQLInSubquery" -> SQLInSubquery_to_string(n)
      [] n.tag = "SQLBetween" -> SQLBetween_to_string(n)
      [] n.tag = "SQLBinaryExpr" ->
             Format(<<ASTNode_to_string(n.left), Ok(" "), SQLOperator_to_string(n.op),
                      Ok(" "), ASTNode_to_string(n.right)>>)
      [] n.tag = "SQLCast" ->
             Format(<<Ok("CAST("), ASTNode_to_string(n.expr), Ok(" AS "),
                      SQLType_to_string(n.data_type), Ok(")")>>)
      [] n.tag = "SQLCollate" ->
             Format(<<ASTNode_to_string(n.expr), Ok(" COLLATE "),
                      SQLObjectName_to_string(n.collation)>>)
      [] n.tag = "SQLNested" -> Format(<<Ok("("), ASTNode_to_string(n.expr), Ok(")")>>)
      [] n.tag = "SQLUnary" ->
             Format(<<SQLOperator_to_string(n.operator), Ok(" "),
                      ASTNode_to_string(n.expr)>>)
      [] n.tag = "SQLValue" -> Value_to_string(n.value)
      [] n.tag = "SQLFunction" -> SQLFunction_to_string(n)
      [] n.tag = "SQLCase" -> SQLCase_to_string(n)
      [] n.tag = "SQLSubquery" ->
             Format(<<Ok("("), SQLQuery_to_string(n.subquery), Ok(")")>>)

-----------------------------------------------------------------------------
(* mod.rs: auxiliary clauses *)

SQLAssignment_to_string(a) ==
    Format(<<Ok("SET "), Ok(a.id), Ok(" = "), ASTNode_to_string(a.value)>>)

\* A variant of SQLColumnDef_to_string that emits NOT NULL when allow_null
\* is set.
SQLColumnDef_to_string_polarity(c) ==
    LET s0 == Format(<<Ok(c.name), Ok(" "), SQLType_to_string(c.data_type)>>)
        s1 == IF c.is_primary THEN Format(<<s0, Ok(" PRIMARY KEY")>>) ELSE s0
        s2 == IF c.is_unique THEN Format(<<s1, Ok(" UNIQUE")>>) ELSE s1
        s3 == IF is_some(c.default)
              THEN Format(<<s2, Ok(" DEFAULT "), ASTNode_to_string(c.default[1])>>)
              ELSE s2
        s4 == IF c.allow_null THEN Format(<<s3, Ok(" NOT NULL")>>) ELSE s3
    IN  s4

SQLColumnDef_to_string(c) ==
    LET s0 == Format(<<Ok(c.name), Ok(" "), SQLType_to_string(c.data_type)>>)
        s1 == IF c.is_primary THEN Format(<<s0, Ok(" PRIMARY KEY")>>) ELSE s0
        s2 == IF c.is_unique THEN Format(<<s1, Ok(" UNIQUE")>>) ELSE s1
        s3 == IF is_some(c.default)
              THEN Format(<<s2, Ok(" DEFAULT "), ASTNode_to_string(c.default[1])>>)
              ELSE s2
        s4 == IF ~c.allow_null THEN Format(<<s3, Ok(" NOT NULL")>>) ELSE s3
    IN  s4

\* A variant of SQLDrop_to_string_internal with the two suffixes exchanged.
SQLDrop_to_string_internal_exchanged(drop, object_type) ==
    Format(<<Ok("DROP "), Ok(object_type),
             IF drop.if_exists THEN Ok(" IF EXISTS") ELSE Ok(""),
             Ok(" "),
             join([i \in DOMAIN drop.names |-> SQLObjectName_to_string(drop.names[i])],
                  ", "),
             IF drop.restrict THEN Ok(" RESTRICT") ELSE Ok(""),
             IF drop.cascade THEN Ok(" CASCADE") ELSE Ok("")>>)

SQLDrop_to_string_internal(drop, object_type) ==
    Format(<<Ok("DROP "), Ok(object_type),
             IF drop.if_exists THEN Ok(" IF EXISTS") ELSE Ok(""),
             Ok(" "),
             join([i \in DOMAIN drop.names |-> SQLObjectName_to_string(drop.names[i])],
                  ", "),
             IF drop.cascade THEN Ok(" CASCADE") ELSE Ok(""),
             IF drop.restrict THEN Ok(" RESTRICT") ELSE Ok("")>>)

SQLOption_to_string(o) ==
    Format(<<Ok(o.name), Ok(" = "), Value_to_string(o.value)>>)

\* The text of the WITH clause, empty when there are no options.
with_options_text(with_options) ==
    IF Len(with_options) # 0
    THEN Format(<<Ok(" WITH ("),
                  comma_separated_string(
                    [i \in DOMAIN with_options |-> SQLOption_to_string(with_options[i])]),
                  Ok(")")>>)
    ELSE Ok("")

-----------------------------------------------------------------------------
(* mod.rs: statements *)

\* A variant of SQLInsert_to_string: the VALUES clause is emitted for an
\* empty row list too.
SQLInsert_to_string_always_values(st) ==
    LET s0 == Format(<<Ok("INSERT INTO "), SQLObjectName_to_string(st.table_name)>>)
        s1 == IF Len(st.columns) # 0
              THEN Format(<<s0, Ok(" ("),
                            join([i \in DOMAIN st.columns |-> Ok(st.columns[i])], ", "),
                            Ok(")")>>)
              ELSE s0
    IN  Format(<<s1, Ok(" VALUES("),
                 join([i \in DOMAIN st.values |->
                         comma_separated_string(
                             ASTNode_to_strings(st.values[i]))], ", "),
                 Ok(")")>>)

SQLInsert_to_string(st) ==
    LET s0 == Format(<<Ok("INSERT INTO "), SQLObjectName_to_string(st.table_name)>>)
        s1 == IF Len(st.columns) # 0
              THEN Format(<<s0, Ok(" ("),
                            join([i \in DOMAIN st.columns |-> Ok(st.columns[i])], ", "),
                            Ok(")")>>)
              ELSE s0
        s2 == IF Len(st.values) # 0
              THEN Format(<<s1, Ok(" VALUES("),
                            join([i \in DOMAIN st.values |->
                                    comma_separated_string(
                                        ASTNode_to_strings(st.values[i]))], ", "),
                            Ok(")")>>)
              ELSE s1
    IN  s2

\* A variant of copy_value_text: an absent value rendered as the empty string.
copy_value_text_empty(v) == IF is_some(v) THEN Ok(v[1]) ELSE Ok("")

\* v.clone().unwrap_or_else(|| "\\N".to_string())
copy_value_text(v) == IF is_some(v) THEN Ok(v[1]) ELSE Ok("\\N")

SQLCopy_to_string(st) ==
    LET s0 == Format(<<Ok("COPY "), SQLObjectName_to_string(st.table_name)>>)
        s1 == IF Len(st.columns) # 0
              THEN Format(<<s0, Ok(" ("),
                            comma_separated_string(
                                [i \in DOMAIN st.columns |->
                                    SQLIdent_to_string(st.columns[i])]),
                            Ok(")")>>)
              ELSE s0
        s2 == Format(<<s1, Ok(" FROM stdin; ")>>)
        s3 == IF Len(st.values) # 0
              THEN Format(<<s2, Ok("\n"),
                            join([i \in DOMAIN st.values |->
                                    copy_value_text(st.values[i])], "\t")>>)
              ELSE s2
    IN  Format(<<s3, Ok("\n\\.")>>)

SQLUpdate_to_string(st) ==
    LET s0 == Format(<<Ok("UPDATE "), SQLObjectName_to_string(st.table_name)>>)
        s1 == IF Len(st.assignments) # 0
              THEN Format(<<s0, comma_separated_string(
                                  [i \in DOMAIN st.assignments |->
                                      SQLAssignment_to_string(st.assignments[i])])>>)
              ELSE s0
        s2 == IF is_some(st.selection)
              THEN Format(<<s1, Ok(" WHERE "), ASTNode_to_string(st.selection[1])>>)
              ELSE s1
    IN  s2

SQLDelete_to_string(st) ==
    LET s0 == Format(<<Ok("DELETE FROM "), SQLObjectName_to_string(st.table_name)>>)
    IN  IF is_some(st.selection)
        THEN Format(<<s0, Ok(" WHERE "), ASTNode_to_string(st.selection[1])>>)
        ELSE s0

SQLCreateDataSource_to_string(st) ==
    Format(<<Ok("CREATE DATA SOURCE "), SQLObjectName_to_string(st.name),
             Ok(" FROM "),
             Value_to_string([vtag |-> "SingleQuotedString", str |-> st.url]),
             Ok(" USING SCHEMA "),
             IF st.schema.stag = "Raw"
             THEN Value_to_string([vtag |-> "SingleQuotedString", str |-> st.schema.str])
             ELSE Format(<<Ok("REGISTRY "),
                           Value_to_string([vtag |-> "SingleQuotedString",
                                            str |-> st.schema.str])>>),
             with_options_text(st.with_options)>>)

SQLCreateDataSink_to_string(st) ==
    Format(<<Ok("CREATE DATA SINK "), SQLObjectName_to_string(st.name),
             Ok(" FROM "), SQLObjectName_to_string(st.from),
             Ok(" INTO "),
             Value_to_string([vtag |-> "SingleQuotedString", str |-> st.url]),
             with_options_text(st.with_options)>>)

SQLCreateView_to_string(st) ==
    Format(<<Ok("CREATE"),
             IF st.materialized THEN Ok(" MATERIALIZED") ELSE Ok(""),
             Ok(" VIEW "), SQLObjectName_to_string(st.name),
             with_options_text(st.with_options),
             Ok(" AS "), SQLQuery_to_string(st.query)>>)

SQLColumnDef_to_strings(columns) ==
    [i \in DOMAIN columns |-> SQLColumnDef_to_string(columns[i])]

\* A variant of file_format_unwrap: unwrap_or_default, which never panics.
file_format_unwrap_or_default(file_format) ==
    IF is_some(file_format) THEN FileFormat_to_string(file_format[1]) ELSE Ok("")

\* file_format.as_ref().unwrap().to_string()
file_format_unwrap(file_format) ==
    IF is_some(file_format) THEN FileFormat_to_string(file_format[1]) ELSE Panic

\* location.as_ref().unwrap()
location_unwrap(location) ==
    IF is_some(location) THEN Ok(location[1]) ELSE Panic

\* The arm guarded by `if *external`.
SQLCreateTable_external_to_string(st) ==
    Format(<<Ok("CREATE EXTERNAL TABLE "), SQLObjectName_to_string(st.name),
             Ok(" ("), comma_separated_string(SQLColumnDef_to_strings(st.columns)),
             Ok(") STORED AS "), file_format_unwrap(st.file_format),
             Ok(" LOCATION '"), location_unwrap(st.location), Ok("'")>>)

SQLCreateTable_to_string(st) ==
    Format(<<Ok("CREATE TABLE "), SQLObjectName_to_string(st.name),
             Ok(" ("), comma_separated_string(SQLColumnDef_to_strings(st.columns)),
             Ok(")"), with_options_text(st.with_options)>>)

SQLStatement_to_string(st) ==
    CASE st.tag = "SQLQuery" -> SQLQuery_to_string(st.query)
      [] st.tag = "SQLInsert" -> SQLInsert_to_string(st)
      [] st.tag = "SQLCopy" -> SQLCopy_to_string(st)
      [] st.tag = "SQLUpdate" -> SQLUpdate_to_string(st)
      [] st.tag = "SQLDelete" -> SQLDelete_to_string(st)
      [] st.tag = "SQLCreateDataSource" -> SQLCreateDataSource_to_string(st)
      [] st.tag = "SQLCreateDataSink" -> SQLCreateDataSink_to_string(st)
      [] st.tag = "SQLCreateView" -> SQLCreateView_to_string(st)
      [] st.tag = "SQLCreateTable" /\ st.external ->
             SQLCreateTable_external_to_string(st)
      [] st.tag = "SQLCreateTable" /\ ~st.external -> SQLCreateTable_to_string(st)
      [] st.tag = "SQLDropTable" -> SQLDrop_to_string_internal(st.drop, "TABLE")
      [] st.tag = "SQLDropDataSource" ->
             SQLDrop_to_string_internal(st.drop, "DATA SOURCE")
      [] st.tag = "SQLDropView" -> SQLDrop_to_string_internal(st.drop, "VIEW")
      [] st.tag = "SQLAlterTable" ->
             Format(<<Ok("ALTER TABLE "), SQLObjectName_to_string(st.name), Ok(" "),
                      AlterOperation_to_string(st.operation)>>)
      [] st.tag = "SQLPeek" -> Format(<<Ok("PEEK "), SQLObjectName_to_string(st.name)>>)
      [] st.tag = "SQLTail" -> Format(<<Ok("TAIL "), SQLObjectName_to_string(st.name)>>)

-----------------------------------------------------------------------------
(* The values the operations are applied to.  The code performs no check   *)
(* at construction: every combination of field values can be built.        *)

\* Constructors of the SQLType variants.
Char(size) == [tag |-> "Char", optsize |-> size]
Varchar(size) == [tag |-> "Varchar", optsize |-> size]
Float(size) == [tag |-> "Float", optsize |-> size]
Clob(size) == [tag |-> "Clob", size |-> size]
Binary(size) == [tag |-> "Binary", size |-> size]
Varbinary(size) == [tag |-> "Varbinary", size |-> size]
Blob(size) == [tag |-> "Blob", size |-> size]
Decimal(precision, scale) ==
    [tag |-> "Decimal", precision |-> precision, scale |-> scale]
Custom(name) == [tag |-> "Custom", custom |-> name]
Array(ty) == [tag |-> "Array", elem |-> ty]
UnitTypes ==
    {[tag |-> t] : t \in {"Uuid", "SmallInt", "Int", "BigInt", "Real", "Double",
                          "Boolean", "Date", "Time", "Timestamp", "Regclass",
                          "Text", "Bytea"}}

\* Constructors of the ASTNode variants.
SQLIdentifier(s) == [tag |-> "SQLIdentifier", ident |-> s]
SQLWildcard == [tag |-> "SQLWildcard"]
SQLQualifiedWildcard(q) == [tag |-> "SQLQualifiedWildcard", parts |-> q]
SQLCompoundIdentifier(q) == [tag |-> "SQLCompoundIdentifier", parts |-> q]
SQLIsNull(e) == [tag |-> "SQLIsNull", expr |-> e]
SQLIsNotNull(e) == [tag |-> "SQLIsNotNull", expr |-> e]
SQLInList(e, list, negated) ==
    [tag |-> "SQLInList", expr |-> e, list |-> list, negated |-> negated]
SQLInSubquery(e, subquery, negated) ==
    [tag |-> "SQLInSubquery", expr |-> e, subquery |-> subquery, negated |-> negated]
SQLBetween(e, negated, low, high) ==
    [tag |-> "SQLBetween", expr |-> e, negated |-> negated, low |-> low, high |-> high]
SQLBinaryExpr(left, op, right) ==
    [tag |-> "SQLBinaryExpr", left |-> left, op |-> op, right |-> right]
SQLCast(e, data_type) == [tag |-> "SQLCast", expr |-> e, data_type |-> data_type]
SQLCollate(e, collation) == [tag |-> "SQLCollate", expr |-> e, collation |-> collation]
SQLNested(e) == [tag |-> "SQLNested", expr |-> e]
SQLUnary(operator, e) == [tag |-> "SQLUnary", operator |-> operator, expr |-> e]
SQLValue(v) == [tag |-> "SQLValue", value |-> v]
SQLFunction(name, args, over, all, distinct) ==
    [tag |-> "SQLFunction", name |-> name, args |-> args, over |-> over,
     all |-> all, distinct |-> distinct]
SQLCase(operand, conditions, results, else_result) ==
    [tag |-> "SQLCase", operand |-> operand, conditions |-> conditions,
     results |-> results, else_result |-> else_result]
SQLSubquery(subquery) == [tag |-> "SQLSubquery", subquery |-> subquery]

Long(n) == [vtag |-> "Long", long |-> n]
SingleQuotedString(s) == [vtag |-> "SingleQuotedString", str |-> s]

Nums == 1 .. MaxNum
Idents == {"a", "b"}
Names == {<<"t">>, <<"s", "t">>}
Queries == {[sql |-> "SELECT 1"]}
Plus == [symbol |-> "+"]
Not == [symbol |-> "NOT"]

BaseTypes ==
    UnitTypes
    \cup {Char(o) : o \in Option(Nums)} \cup {Varchar(o) : o \in Option(Nums)}
    \cup {Float(o) : o \in Option(Nums)}
    \cup {Clob(n) : n \in Nums} \cup {Binary(n) : n \in Nums}
    \cup {Varbinary(n) : n \in Nums} \cup {Blob(n) : n \in Nums}
    \cup {Decimal(p, sc) : p \in Option(Nums), sc \in Option(Nums)}
    \cup {Custom(<<"my", "ty">>)}

RECURSIVE TypesAt(_)
TypesAt(d) ==
    IF d = 0 THEN BaseTypes
    ELSE TypesAt(d - 1) \cup {Array(t) : t \in TypesAt(d - 1)}

Types == TypesAt(MaxDepth)

\* The expressions without children.
Leaves ==
    {SQLIdentifier("a"), SQLWildcard, SQLValue(Long(1)),
     SQLCompoundIdentifier(<<"t", "a">>), SQLQualifiedWildcard(<<"t">>)}

\* The elements of the lists of the IN, function and window tests.
Atoms == {SQLValue(Long(n)) : n \in Nums}

\* The values of the rows of the insert statements.
RowValues == {SQLValue(Long(1)), SQLIdentifier("x")}

\* The window frames and specifications.
FrameBounds ==
    {[btag |-> "CurrentRow"]}
    \cup {[btag |-> "Preceding", offset |-> o] : o \in Option(Nums)}
    \cup {[btag |-> "Following", offset |-> o] : o \in Option(Nums)}

Frames ==
    {[units |-> u, start_bound |-> b, end_bound |-> e] :
        u \in SQLWindowFrameUnits, b \in FrameBounds, e \in Option(FrameBounds)}

OrderBys == {[expr |-> SQLIdentifier("b"), asc |-> None]}

WindowSpecs ==
    {[partition_by |-> p, order_by |-> o, window_frame |-> f] :
        p \in VecUpTo({SQLIdentifier("a")}, MaxLen),
        o \in VecUpTo(OrderBys, MaxLen),
        f \in Option(Frames)}

\* The window specifications of the function calls: each clause present or not.
OverSpecs ==
    {[partition_by |-> p, order_by |-> o, window_frame |-> f] :
        p \in VecUpTo({SQLIdentifier("a")}, 1),
        o \in VecUpTo(OrderBys, 1),
        f \in {None, Some([units |-> "Rows",
                           start_bound |-> [btag |-> "CurrentRow"],
                           end_bound |-> None])}}

\* One level of nesting around e: every variant with a child, the other
\* fields fixed; one cast is to a decimal type with a scale and no precision.
Wrap(e) ==
    {SQLIsNull(e), SQLIsNotNull(e), SQLNested(e), SQLUnary(Not, e),
     SQLCast(e, [tag |-> "Int"]), SQLCast(e, Decimal(None, Some(1))),
     SQLCollate(e, <<"en">>), SQLBinaryExpr(e, Plus, SQLValue(Long(1))),
     SQLFunction(<<"f">>, <<e>>, None, FALSE, FALSE),
     SQLCase(Some(e), <<e>>, <<SQLValue(Long(1))>>, None)}
    \cup {SQLInList(e, <<SQLValue(Long(1))>>, neg) : neg \in BOOLEAN}
    \cup {SQLInSubquery(e, [sql |-> "SELECT 1"], neg) : neg \in BOOLEAN}
    \cup {SQLBetween(e, neg, SQLValue(Long(1)), SQLValue(Long(2))) : neg \in BOOLEAN}

RECURSIVE ExprsAt(_)
ExprsAt(d) ==
    IF d = 0 THEN Leaves
    ELSE ExprsAt(d - 1) \cup UNION {Wrap(e) : e \in ExprsAt(d - 1)}

\* Every variant with every combination of its flags, options and lists,
\* over children without children of their own.
Wide ==
    {SQLInList(e, list, neg) :
        e \in Leaves, list \in VecUpTo(Atoms, MaxLen), neg \in BOOLEAN}
    \cup {SQLInSubquery(e, q, neg) : e \in Leaves, q \in Queries, neg \in BOOLEAN}
    \cup {SQLBetween(e, neg, low, high) :
            e \in Leaves, neg \in BOOLEAN, low \in Atoms, high \in Atoms}
    \cup {SQLCast(SQLIdentifier("a"), ty) : ty \in Types}
    \cup {SQLFunction(<<"f">>, args, over, all, distinct) :
            args \in VecUpTo(Atoms, MaxLen), over \in Option(OverSpecs),
            all \in BOOLEAN, distinct \in BOOLEAN}
    \cup {SQLCase(operand, conditions, results, else_result) :
            operand \in Option({SQLIdentifier("a")}),
            conditions \in VecUpTo({SQLIdentifier("A"), SQLIdentifier("B")}, MaxLen),
            results \in VecUpTo({SQLIdentifier("X"), SQLIdentifier("Y")}, MaxLen),
            else_result \in Option({SQLIdentifier("Z")})}
    \cup {SQLSubquery(q) : q \in Queries}

Exprs == ExprsAt(MaxDepth) \cup Wide

ColumnDefs ==
    {[name |-> "c", data_type |-> ty, is_primary |-> p, is_unique |-> u,
      default |-> d, allow_null |-> n] :
        ty \in Types, p \in BOOLEAN, u \in BOOLEAN,
        d \in Option({SQLValue(Long(1)), SQLCast(SQLIdentifier("a"), Decimal(None, Some(1)))}),
        n \in BOOLEAN}

\* The column definitions of the create-table statements; the last one has a
\* type that cannot be rendered.
TableColumns ==
    {[name |-> "c", data_type |-> [tag |-> "Int"], is_primary |-> TRUE,
      is_unique |-> FALSE, default |-> None, allow_null |-> FALSE],
     [name |-> "d", data_type |-> Decimal(Some(1), Some(1)), is_primary |-> FALSE,
      is_unique |-> FALSE, default |-> None, allow_null |-> TRUE],
     [name |-> "e", data_type |-> Decimal(None, Some(1)), is_primary |-> FALSE,
      is_unique |-> FALSE, default |-> None, allow_null |-> TRUE]}

Options ==
    {[name |-> "k", value |-> Long(1)], [name |-> "l", value |-> SingleQuotedString("x")]}

Assignments ==
    {[id |-> "a", value |-> SQLValue(Long(1))], [id |-> "b", value |-> SQLIdentifier("a")]}

Selections == Option({SQLIsNull(SQLIdentifier("a"))})

Drops ==
    {[if_exists |-> i, names |-> ns, cascade |-> c, restrict |-> r] :
        i \in BOOLEAN, ns \in VecUpTo(Names, MaxLen), c \in BOOLEAN, r \in BOOLEAN}

Statements ==
    {[tag |-> "SQLQuery", query |-> q] : q \in Queries}
    \cup {[tag |-> "SQLInsert", table_name |-> <<"t">>, columns |-> cols, values |-> rows] :
            cols \in VecUpTo({"a"}, MaxLen),
            rows \in VecUpTo(VecUpTo(RowValues, MaxLen), MaxLen)}
    \cup {[tag |-> "SQLCopy", table_name |-> n, columns |-> cols, values |-> vs] :
            n \in Names, cols \in VecUpTo(Idents, MaxLen),
            vs \in VecUpTo(Option({"x", "y"}), MaxLen)}
    \cup {[tag |-> "SQLUpdate", table_name |-> n, assignments |-> as, selection |-> sel] :
            n \in Names, as \in VecUpTo(Assignments, MaxLen), sel \in Selections}
    \cup {[tag |-> "SQLDelete", table_name |-> n, selection |-> sel] :
            n \in Names, sel \in Selections}
    \cup {[tag |-> "SQLCreateDataSource", name |-> <<"src">>, url |-> "kafka://h/t",
           schema |-> [stag |-> st, str |-> "sch"], with_options |-> opts] :
            st \in {"Raw", "Registry"}, opts \in VecUpTo(Options, MaxLen)}
    \cup {[tag |-> "SQLCreateDataSink", name |-> <<"snk">>, from |-> n,
           url |-> "kafka://h/t", with_options |-> opts] :
            n \in Names, opts \in VecUpTo(Options, MaxLen)}
    \cup {[tag |-> "SQLCreateView", name |-> <<"v">>, query |-> q, materialized |-> m,
           with_options |-> opts] :
            q \in Queries, m \in BOOLEAN, opts \in VecUpTo(Options, MaxLen)}
    \cup {[tag |-> "SQLCreateTable", name |-> <<"t">>, columns |-> cols,
           with_options |-> opts, external |-> ext, file_format |-> ff,
           location |-> loc] :
            cols \in VecUpTo(TableColumns, MaxLen), opts \in VecUpTo(Options, MaxLen),
            ext \in BOOLEAN, ff \in Option(FileFormat), loc \in Option({"/data"})}
    \cup {[tag |-> "SQLAlterTable", name |-> n, operation |-> [optext |-> "DROP CONSTRAINT k"]] :
            n \in Names}
    \cup {[tag |-> t, drop |-> d] :
            t \in {"SQLDropTable", "SQLDropDataSource", "SQLDropView"}, d \in Drops}
    \cup {[tag |-> t, name |-> n] : t \in {"SQLPeek", "SQLTail"}, n \in Names}

\* The keywords handed to the two parsers: every accepted keyword, other
\* spellings of them, and other tokens.
Keywords ==
    {"ROWS", "RANGE", "GROUPS", "TEXTFILE", "SEQUENCEFILE", "ORC", "PARQUET",
     "AVRO", "RCFILE", "JSONFILE",
     "rows", "Rows", "range", "Range", "groups", "Groups", "textfile", "TextFile",
     "sequencefile", "orc", "Orc", "parquet", "Parquet", "avro", "rcfile",
     "jsonfile", "JsonFile", "", " ", "ROWS ", " ORC", "ROW", "CSV", "JSON"}

-----------------------------------------------------------------------------
(* The state machine: a value is built, then one operation is applied.     *)

Input(kind, v) == [kind |-> kind, v |-> v]

Init ==
    /\ call = "none"
    /\ result = Pending
    /\ \/ \E e \in Exprs : arg = Input("ASTNode", e)
       \/ \E ty \in Types : arg = Input("SQLType", ty)
       \/ \E c \in ColumnDefs : arg = Input("SQLColumnDef", c)
       \/ \E st \in Statements : arg = Input("SQLStatement", st)
       \/ \E w \in WindowSpecs : arg = Input("SQLWindowSpec", w)
       \/ \E b \in FrameBounds : arg = Input("SQLWindowFrameBound", b)
       \/ \E u \in SQLWindowFrameUnits : arg = Input("SQLWindowFrameUnits", u)
       \/ \E f \in FileFormat : arg = Input("FileFormat", f)
       \/ \E s \in Keywords : arg = Input("str", s)

\* Each action applies one operation of the code to the value built.

ToStringASTNode ==
    /\ call = "none"
    /\ arg.kind = "ASTNode"
    /\ call' = "ASTNode::to_string"
    /\ result' = ASTNode_to_string(arg.v)
    /\ UNCHANGED arg

ToStringSQLType ==
    /\ call = "none"
    /\ arg.kind = "SQLType"
    /\ call' = "SQLType::to_string"
    /\ result' = SQLType_to_string(arg.v)
    /\ UNCHANGED arg

ToStringSQLColumnDef ==
    /\ call = "none"
    /\ arg.kind = "SQLColumnDef"
    /\ call' = "SQLColumnDef::to_string"
    /\ result' = SQLColumnDef_to_string(arg.v)
    /\ UNCHANGED arg

ToStringSQLStatement ==
    /\ call = "none"
    /\ arg.kind = "SQLStatement"
    /\ call' = "SQLStatement::to_string"
    /\ result' = SQLStatement_to_string(arg.v)
    /\ UNCHANGED arg

ToStringSQLWindowSpec ==
    /\ call = "none"
    /\ arg.kind = "SQLWindowSpec"
    /\ call' = "SQLWindowSpec::to_string"
    /\ result' = SQLWindowSpec_to_string(arg.v)
    /\ UNCHANGED arg

ToStringSQLWindowFrameBound ==
    /\ call = "none"
    /\ arg.kind = "SQLWindowFrameBound"
    /\ call' = "SQLWindowFrameBound::to_string"
    /\ result' = SQLWindowFrameBound_to_string(arg.v)
    /\ UNCHANGED arg

ToStringSQLWindowFrameUnits ==
    /\ call = "none"
    /\ arg.kind = "SQLWindowFrameUnits"
    /\ call' = "SQLWindowFrameUnits::to_string"
    /\ result' = SQLWindowFrameUnits_to_string(arg.v)
    /\ UNCHANGED arg

ToStringFileFormat ==
    /\ call = "none"
    /\ arg.kind = "FileFormat"
    /\ call' = "FileFormat::to_string"
    /\ result' = FileFormat_to_string(arg.v)
    /\ UNCHANGED arg

FromStrSQLWindowFrameUnits ==
    /\ call = "none"
    /\ arg.kind = "str"
    /\ call' = "SQLWindowFrameUnits::from_str"
    /\ result' = SQLWindowFrameUnits_from_str(arg.v)
    /\ UNCHANGED arg

FromStrFileFormat ==
    /\ call = "none"
    /\ arg.kind = "str"
    /\ call' = "FileFormat::from_str"
    /\ result' = FileFormat_from_str(arg.v)
    /\ UNCHANGED arg

Next ==
    \/ ToStringASTNode
    \/ ToStringSQLType
    \/ ToStringSQLColumnDef
    \/ ToStringSQLStatement
    \/ ToStringSQLWindowSpec
    \/ ToStringSQLWindowFrameBound
    \/ ToStringSQLWindowFrameUnits
    \/ ToStringFileFormat
    \/ FromStrSQLWindowFrameUnits
    \/ FromStrFileFormat

Spec == Init /\ [][Next]_vars

-----------------------------------------------------------------------------
(* Reading the rendered text *)

StartsWith(s, p) == Len(p) <= Len(s) /\ SubSeq(s, 1, Len(p)) = p
EndsWith(s, p) == Len(p) <= Len(s) /\ SubSeq(s, Len(s) - Len(p) + 1, Len(s)) = p
\* The places of s where t occurs.
Occurrences(s, t) == {i \in 1 .. (Len(s) - Len(t) + 1) : SubSeq(s, i, i + Len(t) - 1) = t}
Contains(s, t) == Occurrences(s, t) # {}
CountOf(s, t) == Cardinality(Occurrences(s, t))

\* The elements i.. of a sequence of texts, each followed by ", " except the
\* last.
RECURSIVE Listed(_, _)
Listed(texts, i) ==
    IF i > Len(texts) THEN ""
    ELSE texts[i] \o (IF i < Len(texts) THEN ", " ELSE "") \o Listed(texts, i + 1)

\* An operation was applied to a value of this kind.
Rendered(op) == call = op

-----------------------------------------------------------------------------
(* C1 *)

\* C1: rendering an expression is total: to_string returns a string for
\* every expression, whatever its nesting, its flags and the type inside a
\* cast, and never aborts.
C1_ExpressionRenderingTotal ==
    Rendered("ASTNode::to_string") => ~result.panic

-----------------------------------------------------------------------------
(* C2 *)

\* C2: rendering a create-table statement whose external flag is set aborts
\* whenever file_format or location is absent; with both present (and column
\* definitions that render) it returns
\* CREATE EXTERNAL TABLE <name> (<col-defs>) STORED AS <file-format> LOCATION '<location>'.
C2_ExternalCreateTable ==
    (Rendered("SQLStatement::to_string") /\ arg.v.tag = "SQLCreateTable"
        /\ arg.v.external) =>
        LET st == arg.v
            cols == comma_separated_string(SQLColumnDef_to_strings(st.columns))
        IN  /\ (is_none(st.file_format) \/ is_none(st.location)) => result = Panic
            /\ (is_some(st.file_format) /\ is_some(st.location) /\ ~cols.panic) =>
                 /\ ~result.panic
                 /\ result.text =
                      "CREATE EXTERNAL TABLE " \o JoinText(st.name, ".") \o " ("
                      \o cols.text \o ") STORED AS "
                      \o FileFormat_to_string(st.file_format[1]).text
                      \o " LOCATION '" \o st.location[1] \o "'"
            /\ (st.columns = << >> /\ st.file_format = Some("ORC")
                    /\ st.location = Some("/data")) =>
                 result = Ok("CREATE EXTERNAL TABLE t () STORED AS ORC LOCATION '/data'")

\* An external create-table statement without a file format was rendered,
\* and the rendering aborted.
C2_Witness ==
    /\ Rendered("SQLStatement::to_string")
    /\ arg.v.tag = "SQLCreateTable" /\ arg.v.external
    /\ is_none(arg.v.file_format) /\ is_some(arg.v.location)
    /\ result = Panic

-----------------------------------------------------------------------------
(* C3 *)

\* What C3 states for a decimal type of this precision and scale.
C3_Decimal(precision, scale) ==
    CASE is_some(scale) /\ is_some(precision) ->
             Ok("numeric(" \o ToString(precision[1]) \o ","
                \o ToString(scale[1]) \o ")")
      [] is_none(scale) /\ is_some(precision) ->
             Ok("numeric(" \o ToString(precision[1]) \o ")")
      [] is_none(scale) /\ is_none(precision) -> Ok("numeric")
      [] is_some(scale) /\ is_none(precision) -> Panic

\* C3: a decimal type renders numeric(<precision>,<scale>) with both present,
\* numeric(<precision>) with the precision alone, numeric with neither, and
\* aborts with a scale and no precision; the same holds of a decimal type
\* inside an array type, a column definition or a cast.
C3_DecimalRendering ==
    /\ (Rendered("SQLType::to_string") /\ arg.v.tag = "Decimal") =>
          result = C3_Decimal(arg.v.precision, arg.v.scale)
    /\ (Rendered("SQLType::to_string") /\ arg.v.tag = "Array"
            /\ arg.v.elem.tag = "Decimal") =>
          LET d == C3_Decimal(arg.v.elem.precision, arg.v.elem.scale)
          IN  result = IF d.panic THEN Panic ELSE Ok(d.text \o "[]")
    /\ (Rendered("SQLColumnDef::to_string") /\ arg.v.data_type.tag = "Decimal") =>
          LET d == C3_Decimal(arg.v.data_type.precision, arg.v.data_type.scale)
          IN  IF d.panic THEN result = Panic
              ELSE result.panic
                   \/ StartsWith(result.text, arg.v.name \o " " \o d.text)
    /\ (Rendered("ASTNode::to_string") /\ arg.v.tag = "SQLCast"
            /\ arg.v.data_type.tag = "Decimal") =>
          LET d == C3_Decimal(arg.v.data_type.precision, arg.v.data_type.scale)
          IN  IF d.panic THEN result = Panic
              ELSE result.panic
                   \/ EndsWith(result.text, " AS " \o d.text \o ")")

\* An array of a decimal type with a scale and no precision was rendered,
\* and the rendering aborted.
C3_Witness ==
    /\ Rendered("SQLType::to_string")
    /\ arg.v.tag = "Array" /\ arg.v.elem.tag = "Decimal"
    /\ is_some(arg.v.elem.scale) /\ is_none(arg.v.elem.precision)
    /\ result = Panic

-----------------------------------------------------------------------------
(* C4 *)

\* The WHEN clauses of conditions i.. and results i.., in index order.
RECURSIVE C4_Clauses(_, _, _)
C4_Clauses(conditions, results, i) ==
    IF i > Len(conditions) THEN ""
    ELSE " WHEN " \o ASTNode_to_string(conditions[i]).text
         \o " THEN " \o ASTNode_to_string(results[i]).text
         \o C4_Clauses(conditions, results, i + 1)

\* Every expression of the CASE renders.
C4_PartsRender(n) ==
    /\ \A i \in DOMAIN n.operand : ~ASTNode_to_string(n.operand[i]).panic
    /\ \A i \in DOMAIN n.conditions : ~ASTNode_to_string(n.conditions[i]).panic
    /\ \A i \in DOMAIN n.results : ~ASTNode_to_string(n.results[i]).panic
    /\ \A i \in DOMAIN n.else_result : ~ASTNode_to_string(n.else_result[i]).panic

\* C4: a CASE whose condition and result sequences both have length n renders
\* CASE, then " <operand>" if present, then the n clauses
\* " WHEN <condition_i> THEN <result_i>" in index order, then " ELSE <else>"
\* if present, then " END".
C4_CasePositionalPairing ==
    (Rendered("ASTNode::to_string") /\ arg.v.tag = "SQLCase"
        /\ Len(arg.v.conditions) = Len(arg.v.results) /\ C4_PartsRender(arg.v)) =>
        LET n == arg.v
        IN  /\ result =
                 Ok("CASE"
                    \o (IF is_some(n.operand)
                        THEN " " \o ASTNode_to_string(n.operand[1]).text ELSE "")
                    \o C4_Clauses(n.conditions, n.results, 1)
                    \o (IF is_some(n.else_result)
                        THEN " ELSE " \o ASTNode_to_string(n.else_result[1]).text
                        ELSE "")
                    \o " END")
            /\ (n = SQLCase(None, <<SQLIdentifier("A"), SQLIdentifier("B")>>,
                            <<SQLIdentifier("X"), SQLIdentifier("Y")>>, None)) =>
                 result = Ok("CASE WHEN A THEN X WHEN B THEN Y END")
            /\ (\A i \in DOMAIN n.operand : n.operand[i].tag = "SQLIdentifier") =>
                 (/\ CountOf(result.text, " WHEN ") = Len(n.conditions)
                  /\ CountOf(result.text, " THEN ") = Len(n.conditions))

\* A CASE with an operand, two conditions, two results and an else result
\* was rendered.
C4_Witness ==
    /\ Rendered("ASTNode::to_string") /\ arg.v.tag = "SQLCase"
    /\ is_some(arg.v.operand) /\ is_some(arg.v.else_result)
    /\ Len(arg.v.conditions) = 2 /\ Len(arg.v.results) = 2
    /\ arg.v.conditions[1] # arg.v.conditions[2]
    /\ ~result.panic

-----------------------------------------------------------------------------
(* C5 *)

\* The texts of the operands that follow IN or BETWEEN.
C5_Rest(n) ==
    CASE n.tag = "SQLInList" ->
             comma_separated_string(ASTNode_to_strings(n.list))
      [] n.tag = "SQLInSubquery" -> SQLQuery_to_string(n.subquery)
      [] n.tag = "SQLBetween" ->
             Format(<<ASTNode_to_string(n.low), Ok(" AND "), ASTNode_to_string(n.high)>>)

\* The keyword and what stands between it and the operands.
C5_Keyword(n) == IF n.tag = "SQLBetween" THEN "BETWEEN " ELSE "IN ("
C5_Close(n) == IF n.tag = "SQLBetween" THEN "" ELSE ")"

\* C5: in an IN list, an IN subquery and a BETWEEN the negation flag alone
\* decides whether "NOT " appears; it appears once, right after the tested
\* expression and right before IN or BETWEEN; without the flag the text is
\* the same without "NOT ".
C5_NegationPlacement ==
    (Rendered("ASTNode::to_string")
        /\ arg.v.tag \in {"SQLInList", "SQLInSubquery", "SQLBetween"}
        /\ ~ASTNode_to_string(arg.v.expr).panic /\ ~C5_Rest(arg.v).panic) =>
        LET n == arg.v
            e == ASTNode_to_string(n.expr).text
            rest == C5_Rest(n).text
        IN  /\ ~result.panic
            /\ n.negated =>
                 result.text = e \o " NOT " \o C5_Keyword(n) \o rest \o C5_Close(n)
            /\ ~n.negated =>
                 result.text = e \o " " \o C5_Keyword(n) \o rest \o C5_Close(n)
            /\ CountOf(result.text, "NOT ") =
                 CountOf(e, "NOT ") + CountOf(rest, "NOT ")
                 + (IF n.negated THEN 1 ELSE 0)
            /\ (n.expr = SQLIdentifier("a") /\ n.tag = "SQLInList"
                    /\ n.list = <<SQLValue(Long(1)), SQLValue(Long(2))>>) =>
                 result = IF n.negated THEN Ok("a NOT IN (1, 2)") ELSE Ok("a IN (1, 2)")
            /\ (n.expr = SQLIdentifier("a") /\ n.tag = "SQLBetween"
                    /\ n.low = SQLValue(Long(1)) /\ n.high = SQLValue(Long(2))) =>
                 result = IF n.negated THEN Ok("a NOT BETWEEN 1 AND 2")
                          ELSE Ok("a BETWEEN 1 AND 2")

\* The negated IN list of a over [1, 2] was rendered.
C5_Witness ==
    /\ Rendered("ASTNode::to_string") /\ arg.v.tag = "SQLInList"
    /\ arg.v.negated /\ arg.v.expr = SQLIdentifier("a")
    /\ arg.v.list = <<SQLValue(Long(1)), SQLValue(Long(2))>>
    /\ result = Ok("a NOT IN (1, 2)")

-----------------------------------------------------------------------------
(* C6 *)

\* The data line of values i..: the values joined by tabs, an absent one
\* written \N.
RECURSIVE C6_DataLine(_, _)
C6_DataLine(values, i) ==
    (IF is_some(values[i]) THEN values[i][1] ELSE "\\N")
    \o (IF i = Len(values) THEN "" ELSE "\t" \o C6_DataLine(values, i + 1))

\* C6: a bulk copy renders COPY <name>, then " (<cols>)" only if there are
\* columns, then " FROM stdin; ", then, only if there are values, a newline
\* and the values joined by tabs with every absent value as the two
\* characters \N, and it always ends with a newline and \. ; the row
\* [None, Some("x")] yields the data line \N<TAB>x.
C6_CopyRendering ==
    (Rendered("SQLStatement::to_string") /\ arg.v.tag = "SQLCopy") =>
        LET st == arg.v
        IN  /\ result =
                 Ok("COPY " \o JoinText(st.table_name, ".")
                    \o (IF st.columns # << >>
                        THEN " (" \o JoinText(st.columns, ", ") \o ")" ELSE "")
                    \o " FROM stdin; "
                    \o (IF st.values # << >>
                        THEN "\n" \o C6_DataLine(st.values, 1) ELSE "")
                    \o "\n\\.")
            /\ EndsWith(result.text, "\n\\.")
            /\ Len("\\N") = 2
            /\ CountOf(result.text, "\\N") =
                 Cardinality({i \in DOMAIN st.values : is_none(st.values[i])})
            /\ CountOf(result.text, "\t") =
                 (IF st.values = << >> THEN 0 ELSE Len(st.values) - 1)
            /\ CountOf(result.text, " (") = (IF st.columns = << >> THEN 0 ELSE 1)
            /\ (st.values = <<None, Some("x")>> /\ st.columns = << >>
                    /\ st.table_name = <<"t">>) =>
                 result = Ok("COPY t FROM stdin; \n\\N\tx\n\\.")

\* The copy of the row [None, Some("x")] was rendered.
C6_Witness ==
    /\ Rendered("SQLStatement::to_string") /\ arg.v.tag = "SQLCopy"
    /\ arg.v.values = <<None, Some("x")>>
    /\ arg.v.columns # << >>
    /\ Contains(result.text, "\n\\N\tx\n")

-----------------------------------------------------------------------------
(* C7 *)

\* The qualified names joined by ", ".
RECURSIVE C7_Names(_, _)
C7_Names(names, i) ==
    IF i > Len(names) THEN ""
    ELSE JoinText(names[i], ".")
         \o (IF i = Len(names) THEN "" ELSE ", " \o C7_Names(names, i + 1))

C7_ObjectType(tag) ==
    CASE tag = "SQLDropTable" -> "TABLE"
      [] tag = "SQLDropDataSource" -> "DATA SOURCE"
      [] tag = "SQLDropView" -> "VIEW"

\* C7: a drop statement renders
\* DROP <OBJECT-TYPE>[ IF EXISTS] <names joined by ", ">[ CASCADE][ RESTRICT],
\* the object type fixed by the variant; each flag controls its own token
\* only, and with cascade and restrict both set the suffixes come in the
\* order CASCADE RESTRICT.
C7_DropRendering ==
    (Rendered("SQLStatement::to_string")
        /\ arg.v.tag \in {"SQLDropTable", "SQLDropDataSource", "SQLDropView"}) =>
        LET d == arg.v.drop
        IN  /\ result =
                 Ok("DROP " \o C7_ObjectType(arg.v.tag)
                    \o (IF d.if_exists THEN " IF EXISTS" ELSE "")
                    \o " " \o C7_Names(d.names, 1)
                    \o (IF d.cascade THEN " CASCADE" ELSE "")
                    \o (IF d.restrict THEN " RESTRICT" ELSE ""))
            /\ CountOf(result.text, " IF EXISTS") = (IF d.if_exists THEN 1 ELSE 0)
            /\ CountOf(result.text, " CASCADE") = (IF d.cascade THEN 1 ELSE 0)
            /\ CountOf(result.text, " RESTRICT") = (IF d.restrict THEN 1 ELSE 0)
            /\ (d.cascade /\ d.restrict) => EndsWith(result.text, " CASCADE RESTRICT")
            /\ (arg.v.tag = "SQLDropTable" /\ d.names = << <<"t">> >>
                    /\ d.if_exists /\ d.cascade /\ ~d.restrict) =>
                 result = Ok("DROP TABLE IF EXISTS t CASCADE")

\* A drop with cascade and restrict both set was rendered.
C7_Witness ==
    /\ Rendered("SQLStatement::to_string") /\ arg.v.tag = "SQLDropView"
    /\ arg.v.drop.cascade /\ arg.v.drop.restrict /\ Len(arg.v.drop.names) = 2
    /\ EndsWith(result.text, " CASCADE RESTRICT")

-----------------------------------------------------------------------------
(* C8 *)

\* C8: a column definition renders <name> <type>, then, in this order,
\* " PRIMARY KEY" iff is_primary, " UNIQUE" iff is_unique, " DEFAULT <expr>"
\* iff a default is present, " NOT NULL" iff allow_null is false.
C8_ColumnDefRendering ==
    (Rendered("SQLColumnDef::to_string")
        /\ ~SQLType_to_string(arg.v.data_type).panic
        /\ \A i \in DOMAIN arg.v.default : ~ASTNode_to_string(arg.v.default[i]).panic) =>
        LET c == arg.v
        IN  /\ result =
                 Ok(c.name \o " " \o SQLType_to_string(c.data_type).text
                    \o (IF c.is_primary THEN " PRIMARY KEY" ELSE "")
                    \o (IF c.is_unique THEN " UNIQUE" ELSE "")
                    \o (IF is_some(c.default)
                        THEN " DEFAULT " \o ASTNode_to_string(c.default[1]).text ELSE "")
                    \o (IF c.allow_null THEN "" ELSE " NOT NULL"))
            /\ EndsWith(result.text, " NOT NULL") <=> ~c.allow_null
            /\ Contains(result.text, " NOT NULL") <=> ~c.allow_null
            /\ Contains(result.text, " PRIMARY KEY") <=> c.is_primary
            /\ Contains(result.text, " UNIQUE") <=> c.is_unique
            /\ Contains(result.text, " DEFAULT ") <=> is_some(c.default)
            /\ (c.data_type = [tag |-> "Int"] /\ c.is_primary /\ c.is_unique
                    /\ c.default = Some(SQLValue(Long(1))) /\ ~c.allow_null) =>
                 result = Ok("c int PRIMARY KEY UNIQUE DEFAULT 1 NOT NULL")

\* A column definition with every marker was rendered.
C8_Witness ==
    /\ Rendered("SQLColumnDef::to_string")
    /\ arg.v.is_primary /\ arg.v.is_unique /\ is_some(arg.v.default)
    /\ ~arg.v.allow_null
    /\ result = Ok("c int PRIMARY KEY UNIQUE DEFAULT 1 NOT NULL")

-----------------------------------------------------------------------------
(* C9 *)

\* The accepted keywords and the variant of each.
C9_UnitsKeywords == {"ROWS", "RANGE", "GROUPS"}
C9_UnitsVariant(k) ==
    CASE k = "ROWS" -> "Rows" [] k = "RANGE" -> "Range" [] k = "GROUPS" -> "Groups"
C9_FormatKeywords ==
    {"TEXTFILE", "SEQUENCEFILE", "ORC", "PARQUET", "AVRO", "RCFILE", "JSONFILE"}

\* C9: parsing a keyword into a window-frame unit or a file format succeeds
\* exactly for the upper-case keywords, each giving its own variant; every
\* other input (lower or mixed case, the empty string) gives a parse error
\* whose message contains the token; the parse never aborts.
C9_KeywordParsing ==
    /\ Rendered("SQLWindowFrameUnits::from_str") =>
          /\ result.is_ok <=> arg.v \in C9_UnitsKeywords
          /\ result.is_ok => result.value = C9_UnitsVariant(arg.v)
          /\ ~result.is_ok =>
                /\ EndsWith(result.message, arg.v)
                /\ Len(result.message) > Len(arg.v)
    /\ Rendered("FileFormat::from_str") =>
          /\ result.is_ok <=> arg.v \in C9_FormatKeywords
          /\ result.is_ok => result.value = arg.v
          /\ ~result.is_ok =>
                /\ EndsWith(result.message, arg.v)
                /\ Len(result.message) > Len(arg.v)
    /\ (Rendered("SQLWindowFrameUnits::from_str") \/ Rendered("FileFormat::from_str")) =>
          result.is_ok \in BOOLEAN

\* The lower-case spelling of a keyword was parsed as a file format, and the
\* error names it.
C9_Witness ==
    /\ Rendered("FileFormat::from_str") /\ arg.v = "textfile"
    /\ ~result.is_ok /\ Contains(result.message, "textfile")

-----------------------------------------------------------------------------
(* C10 *)

\* C10: for every variant v of the window-frame units and of the file
\* formats the rendered text is non-empty and parses back to v, and for
\* every accepted keyword k the variant it parses to renders as k.
C10_LeafEnumRoundTrip ==
    /\ Rendered("SQLWindowFrameUnits::to_string") =>
          /\ ~result.panic /\ result.text # ""
          /\ SQLWindowFrameUnits_from_str(result.text) = OkValue(arg.v)
    /\ Rendered("FileFormat::to_string") =>
          /\ ~result.panic /\ result.text # ""
          /\ FileFormat_from_str(result.text) = OkValue(arg.v)
    /\ (Rendered("SQLWindowFrameUnits::from_str") /\ result.is_ok) =>
          SQLWindowFrameUnits_to_string(result.value) = Ok(arg.v)
    /\ (Rendered("FileFormat::from_str") /\ result.is_ok) =>
          FileFormat_to_string(result.value) = Ok(arg.v)

-----------------------------------------------------------------------------
(* C11 *)

\* The assignments i.. as <id> = <expr>, joined by ", ".
RECURSIVE C11_Assignments(_, _)
C11_Assignments(assignments, i) ==
    assignments[i].id \o " = " \o ASTNode_to_string(assignments[i].value).text
    \o (IF i = Len(assignments) THEN ""
        ELSE ", " \o C11_Assignments(assignments, i + 1))

\* C11: an update statement with n >= 1 assignments renders
\* UPDATE <name> SET <id_1> = <expr_1>, ..., <id_n> = <expr_n>[ WHERE <selection>]:
\* a space separates the table name from the assignments, SET occurs once,
\* and " WHERE <selection>" is appended iff a selection is present.
C11_UpdateRendering ==
    (Rendered("SQLStatement::to_string") /\ arg.v.tag = "SQLUpdate"
        /\ Len(arg.v.assignments) >= 1) =>
        LET st == arg.v
        IN  /\ result =
                 Ok("UPDATE " \o JoinText(st.table_name, ".") \o " SET "
                    \o C11_Assignments(st.assignments, 1)
                    \o (IF is_some(st.selection)
                        THEN " WHERE " \o ASTNode_to_string(st.selection[1]).text
                        ELSE ""))
            /\ CountOf(result.text, "SET ") = 1

-----------------------------------------------------------------------------
(* C12 *)

\* One row: its expressions in order.
C12_Row(row) == Listed([j \in DOMAIN row |-> ASTNode_to_string(row[j]).text], 1)

\* C12: an insert statement renders INSERT INTO <name>, then " (<cols>)" with
\* the columns joined by ", " iff the column list is non-empty, then
\* " VALUES(<row_1>, <row_2>, ...)" iff the row list is non-empty, each row
\* being its expressions joined by ", ", rows in list order; with no columns
\* and no rows the text is exactly INSERT INTO <name>.
C12_InsertRendering ==
    (Rendered("SQLStatement::to_string") /\ arg.v.tag = "SQLInsert") =>
        LET st == arg.v
            name == JoinText(st.table_name, ".")
            cols == IF Len(st.columns) = 0 THEN ""
                    ELSE " (" \o Listed(st.columns, 1) \o ")"
            rows == IF Len(st.values) = 0 THEN ""
                    ELSE " VALUES("
                         \o Listed([i \in DOMAIN st.values |-> C12_Row(st.values[i])], 1)
                         \o ")"
        IN  /\ result = Ok("INSERT INTO " \o name \o cols \o rows)
            /\ Contains(result.text, " (") <=> Len(st.columns) # 0
            /\ Contains(result.text, " VALUES(") <=> Len(st.values) # 0
            /\ (Len(st.columns) = 0 /\ Len(st.values) = 0) =>
                   result.text = "INSERT INTO " \o name
            /\ (st.table_name = <<"t">> /\ st.columns = <<"a", "a">>
                /\ st.values = <<<<SQLValue(Long(1)), SQLIdentifier("x")>>,
                                 <<SQLIdentifier("x")>>>>) =>
                   result.text = "INSERT INTO t (a, a) VALUES(1, x, x)"

\* An insert with columns and two rows has been rendered.
C12_Witness ==
    /\ Rendered("SQLStatement::to_string")
    /\ arg.v.tag = "SQLInsert"
    /\ Len(arg.v.columns) = 2
    /\ Len(arg.v.values) = 2
    /\ Len(arg.v.values[1]) = 2
    /\ ~result.panic

-----------------------------------------------------------------------------
(* C13 *)

\* The text of a frame bound.
C13_Bound(b) ==
    IF b.btag = "CurrentRow" THEN "CURRENT ROW"
    ELSE LET direction == IF b.btag = "Preceding" THEN "PRECEDING" ELSE "FOLLOWING"
         IN  IF is_none(b.offset) THEN "UNBOUNDED " \o direction
             ELSE ToString(b.offset[1]) \o " " \o direction

\* The text of a frame clause.
C13_Frame(f) ==
    LET units == SQLWindowFrameUnits_to_string(f.units).text
    IN  IF is_some(f.end_bound)
        THEN units \o " BETWEEN " \o C13_Bound(f.start_bound) \o " AND "
             \o C13_Bound(f.end_bound[1])
        ELSE units \o " " \o C13_Bound(f.start_bound)

\* C13: a window specification renders at most three clauses in the order
\* PARTITION BY <list> (only if partition_by is non-empty), ORDER BY <list>
\* (only if order_by is non-empty), frame clause (only if a frame is present),
\* joined by exactly one space with no leading or trailing space; the frame
\* clause is <UNITS> BETWEEN <start> AND <end> iff an end bound exists, else
\* <UNITS> <start>; a bound renders CURRENT ROW, UNBOUNDED PRECEDING or
\* UNBOUNDED FOLLOWING without an offset, else <n> PRECEDING or <n> FOLLOWING.
C13_WindowSpecRendering ==
    /\ (Rendered("SQLWindowSpec::to_string")) =>
          LET w == arg.v
              hasP == Len(w.partition_by) # 0
              hasO == Len(w.order_by) # 0
              hasF == is_some(w.window_frame)
              p == IF hasP
                   THEN "PARTITION BY "
                        \o Listed([i \in DOMAIN w.partition_by |->
                                     ASTNode_to_string(w.partition_by[i]).text], 1)
                   ELSE ""
              o == IF hasO
                   THEN "ORDER BY "
                        \o Listed([i \in DOMAIN w.order_by |->
                                     SQLOrderByExpr_to_string(w.order_by[i]).text], 1)
                   ELSE ""
              f == IF hasF THEN C13_Frame(w.window_frame[1]) ELSE ""
          IN  /\ result = Ok(p \o (IF hasP /\ (hasO \/ hasF) THEN " " ELSE "")
                             \o o \o (IF hasO /\ hasF THEN " " ELSE "") \o f)
              /\ ~StartsWith(result.text, " ")
              /\ ~EndsWith(result.text, " ")
              /\ ~Contains(result.text, "  ")
              /\ Contains(result.text, "PARTITION BY ") <=> hasP
              /\ Contains(result.text, "ORDER BY ") <=> hasO
              /\ Contains(result.text, " BETWEEN ") <=>
                     (hasF /\ is_some(w.window_frame[1].end_bound))
              /\ (~hasP /\ ~hasO /\ ~hasF) => result.text = ""
              /\ (Len(w.partition_by) = 1 /\ Len(w.order_by) = 1 /\ hasF
                  /\ w.window_frame[1] =
                       [units |-> "Rows",
                        start_bound |-> [btag |-> "Preceding", offset |-> Some(1)],
                        end_bound |-> Some([btag |-> "CurrentRow"])]) =>
                     result.text =
                       "PARTITION BY a ORDER BY b ROWS BETWEEN 1 PRECEDING AND CURRENT ROW"
    /\ (Rendered("SQLWindowFrameBound::to_string")) =>
          /\ result = Ok(C13_Bound(arg.v))
          /\ arg.v = [btag |-> "CurrentRow"] => result.text = "CURRENT ROW"
          /\ arg.v = [btag |-> "Preceding", offset |-> None] =>
                 result.text = "UNBOUNDED PRECEDING"
          /\ arg.v = [btag |-> "Following", offset |-> None] =>
                 result.text = "UNBOUNDED FOLLOWING"
          /\ arg.v = [btag |-> "Preceding", offset |-> Some(1)] =>
                 result.text = "1 PRECEDING"
          /\ arg.v = [btag |-> "Following", offset |-> Some(1)] =>
                 result.text = "1 FOLLOWING"

\* A window specification with all three clauses and an end bound has been
\* rendered.
C13_Witness ==
    /\ Rendered("SQLWindowSpec::to_string")
    /\ Len(arg.v.partition_by) = 2
    /\ Len(arg.v.order_by) = 1
    /\ is_some(arg.v.window_frame)
    /\ is_some(arg.v.window_frame[1].end_bound)
    /\ arg.v.window_frame[1].end_bound[1].btag = "Following"
    /\ ~result.panic

-----------------------------------------------------------------------------
(* C14 *)

\* The row lists an insert statement of the model can hold.
C14_RowLists == VecUpTo(VecUpTo(RowValues, MaxLen), MaxLen)

\* C14: insert rendering preserves row boundaries: an insert statement with
\* the same table name and column list but a different row list renders to
\* a different text, so the row list can be recovered from the text.
C14_InsertRowBoundaries ==
    (Rendered("SQLStatement::to_string") /\ arg.v.tag = "SQLInsert") =>
        \A rows \in C14_RowLists :
            rows # arg.v.values =>
                SQLStatement_to_string([arg.v EXCEPT !.values = rows]) # result

-----------------------------------------------------------------------------
(* C15 *)

\* A create-table statement has been rendered.
C15_CreateTable == Rendered("SQLStatement::to_string") /\ arg.v.tag = "SQLCreateTable"

\* With external false the rendering returns a text.
C15_NeverAborts == (C15_CreateTable /\ ~arg.v.external) => ~result.panic

\* The fields the external flag lets through: with external false the result
\* is the same for every file_format and location and has the WITH clause iff
\* there are options; with external true and both fields present the result
\* is the same for every with_options and has no WITH clause.
C15_Gating ==
    /\ (C15_CreateTable /\ ~arg.v.external) =>
          LET st == arg.v
              cols == comma_separated_string(SQLColumnDef_to_strings(st.columns))
              opts == Listed([i \in DOMAIN st.with_options |->
                                SQLOption_to_string(st.with_options[i]).text], 1)
          IN  /\ \A ff \in Option(FileFormat), loc \in Option({"/data"}) :
                    SQLStatement_to_string(
                        [st EXCEPT !.file_format = ff, !.location = loc]) = result
              /\ ~cols.panic =>
                    /\ result.text =
                         "CREATE TABLE " \o JoinText(st.name, ".") \o " ("
                         \o cols.text \o ")"
                         \o (IF Len(st.with_options) # 0
                             THEN " WITH (" \o opts \o ")" ELSE "")
                    /\ Contains(result.text, " WITH (") <=> Len(st.with_options) # 0
    /\ (C15_CreateTable /\ arg.v.external
            /\ is_some(arg.v.file_format) /\ is_some(arg.v.location)) =>
          /\ \A opts \in VecUpTo(Options, MaxLen) :
                SQLStatement_to_string([arg.v EXCEPT !.with_options = opts]) = result
          /\ ~Contains(result.text, "WITH")

\* C15: the external flag gates which create-table fields reach the output:
\* with external false the rendering never aborts and the text
\* CREATE TABLE <name> (<col-defs>)[ WITH (<options>)] is the same for every
\* file_format and location, the WITH clause being there iff the option list
\* is non-empty; with external true and both fields present the text is the
\* same for every with_options and never contains a WITH clause.
C15_ExternalGating == C15_NeverAborts /\ C15_Gating

-----------------------------------------------------------------------------
(* C16 *)

\* The shorter of the two lengths.
C16_Min(conditions, results) ==
    IF Len(conditions) <= Len(results) THEN Len(conditions) ELSE Len(results)

\* The clauses i..m pairing conditions[i] with results[i].
RECURSIVE C16_Clauses(_, _, _, _)
C16_Clauses(conditions, results, i, m) ==
    IF i > m THEN ""
    ELSE " WHEN " \o ASTNode_to_string(conditions[i]).text
         \o " THEN " \o ASTNode_to_string(results[i]).text
         \o C16_Clauses(conditions, results, i + 1, m)

\* C16: a CASE whose condition and result sequences have different lengths
\* is a value of the type, and rendering it does not abort: the text has
\* exactly min(len(conditions), len(results)) WHEN/THEN clauses, pairing the
\* first elements positionally; the unpaired trailing conditions or results
\* are left out.
C16_CaseLengthMismatch ==
    (Rendered("ASTNode::to_string") /\ arg.v.tag = "SQLCase"
        /\ Len(arg.v.conditions) # Len(arg.v.results)) =>
        LET n == arg.v
            m == C16_Min(n.conditions, n.results)
        IN  /\ ~result.panic
            /\ result.text =
                 "CASE"
                 \o (IF is_some(n.operand)
                     THEN " " \o ASTNode_to_string(n.operand[1]).text ELSE "")
                 \o C16_Clauses(n.conditions, n.results, 1, m)
                 \o (IF is_some(n.else_result)
                     THEN " ELSE " \o ASTNode_to_string(n.else_result[1]).text
                     ELSE "")
                 \o " END"
            /\ CountOf(result.text, " WHEN ") = m
            /\ CountOf(result.text, " THEN ") = m
            /\ (n = SQLCase(None, <<SQLIdentifier("A"), SQLIdentifier("B")>>,
                            <<SQLIdentifier("X")>>, None)) =>
                 result.text = "CASE WHEN A THEN X END"
            /\ (n = SQLCase(None, <<SQLIdentifier("B")>>,
                            <<SQLIdentifier("Y"), SQLIdentifier("X")>>,
                            Some(SQLIdentifier("Z")))) =>
                 result.text = "CASE WHEN B THEN Y ELSE Z END"
            /\ (n = SQLCase(None, << >>, <<SQLIdentifier("X")>>, None)) =>
                 result.text = "CASE END"

\* A CASE with two conditions and one result has been rendered to a text
\* with one clause.
C16_Witness ==
    /\ Rendered("ASTNode::to_string") /\ arg.v.tag = "SQLCase"
    /\ Len(arg.v.conditions) = 2 /\ Len(arg.v.results) = 1
    /\ ~result.panic
    /\ CountOf(result.text, " WHEN ") = 1

=============================================================================
